---- MODULE Spec2Model ----
(***************************************************************************)
(* A model of the tidbyt poem service (10_integrations/tidbyt/tidbyt.py)   *)
(* and of the CUDA diagnostic probe (02_building_containers/cuda/          *)
(* use_cuda.py).                                                           *)
(*                                                                         *)
(* Text is a sequence of one-character strings.  The clock is the UTC      *)
(* instant as calendar fields; America/New_York wall time is derived from  *)
(* it with the US daylight-saving rules in force since 2007.               *)
(***************************************************************************)
EXTENDS Integers, Sequences, FiniteSets, TLC

VARIABLES now, ymdh, response, volume, wp, rd, host, probe

vars == <<now, ymdh, response, volume, wp, rd, host, probe>>

(***************************************************************************)
(* Bounds of the model.                                                    *)
(***************************************************************************)
\* the calendar years the clock ranges over
FirstYear == 2023
LastYear == 2024
\* the most fragments a completion response holds
MaxFragments == 2
\* the most poem files the volume holds
MaxFiles == 2
\* the UTC hours of a day the poem service is observed in: WindowHours
\* hours from WindowStart o'clock on
WindowStart == 5
WindowHours == 3

(***************************************************************************)
(* Constants of the program.                                               *)
(***************************************************************************)
\* iter_content(chunk_size=1024)
ChunkSize == 1024
\* line[6:]
PrefixLen == 6
\* splitlines()[:3]
MaxLines == 3
\* response.status_code == 200
StatusOk == 200

(***************************************************************************)
(* Calendar arithmetic (datetime, pytz).                                   *)
(***************************************************************************)
IsLeap(y) == (y % 4 = 0 /\ y % 100 # 0) \/ y % 400 = 0

DaysInMonth(y, m) ==
    IF m = 2 THEN (IF IsLeap(y) THEN 29 ELSE 28)
    ELSE IF m \in {4, 6, 9, 11} THEN 30 ELSE 31

\* day of the week of a civil date, 0 = Sunday (Sakamoto's method)
DayOfWeek(y, m, d) ==
    LET t == <<0, 3, 2, 5, 0, 3, 5, 1, 4, 6, 2, 4>>
        yy == IF m < 3 THEN y - 1 ELSE y
    IN (yy + yy \div 4 - yy \div 100 + yy \div 400 + t[m] + d) % 7

\* the fields of a datetime: year, month, day, hour, minute
DateTime(y, mo, d, h, mi) ==
    [year |-> y, month |-> mo, day |-> d, hour |-> h, minute |-> mi]

\* datetime + timedelta(hours=1): arithmetic on the fields the datetime
\* carries, with carry into day, month and year; the tzinfo is not consulted
AddHour(t) ==
    IF t.hour < 23 THEN [t EXCEPT !.hour = t.hour + 1]
    ELSE IF t.day < DaysInMonth(t.year, t.month)
         THEN [t EXCEPT !.hour = 0, !.day = t.day + 1]
    ELSE IF t.month < 12
         THEN [t EXCEPT !.hour = 0, !.day = 1, !.month = t.month + 1]
    ELSE [t EXCEPT !.hour = 0, !.day = 1, !.month = 1, !.year = t.year + 1]

\* datetime - timedelta(hours=n), 0 <= n <= 24, with borrow
SubHours(t, n) ==
    IF t.hour >= n THEN [t EXCEPT !.hour = t.hour - n]
    ELSE IF t.day > 1
         THEN [t EXCEPT !.hour = t.hour + 24 - n, !.day = t.day - 1]
    ELSE IF t.month > 1
         THEN [t EXCEPT !.hour = t.hour + 24 - n,
                        !.day = DaysInMonth(t.year, t.month - 1),
                        !.month = t.month - 1]
    ELSE [t EXCEPT !.hour = t.hour + 24 - n, !.day = 31, !.month = 12,
                   !.year = t.year - 1]

\* America/New_York: daylight time starts on the second Sunday of March at
\* 02:00 EST (07:00 UTC) and ends on the first Sunday of November at
\* 02:00 EDT (06:00 UTC)
DstStartDay(y) == CHOOSE d \in 8..14 : DayOfWeek(y, 3, d) = 0

DstEndDay(y) == CHOOSE d \in 1..7 : DayOfWeek(y, 11, d) = 0

\* month, day, hour of a UTC instant as one ordered number
Stamp(mo, d, h) == (mo * 32 + d) * 24 + h

IsDst(u) ==
    /\ Stamp(u.month, u.day, u.hour) >= Stamp(3, DstStartDay(u.year), 7)
    /\ Stamp(u.month, u.day, u.hour) < Stamp(11, DstEndDay(u.year), 6)

\* hours that New York wall time is behind UTC at UTC instant u
UtcOffset(u) == IF IsDst(u) THEN 4 ELSE 5

\* datetime.datetime.now(eastern) at UTC instant u: the wall-clock fields
NowEastern(u) == SubHours(u, UtcOffset(u))

(***************************************************************************)
(* strftime("%Y %m %d %H").split()                                         *)
(***************************************************************************)
Digit(n) == <<"0", "1", "2", "3", "4", "5", "6", "7", "8", "9">>[n + 1]

RECURSIVE Digits(_)
\* the decimal digits of n >= 0, no padding (%Y)
Digits(n) == IF n < 10 THEN <<Digit(n)>> ELSE Append(Digits(n \div 10), Digit(n % 10))

\* Pad2 without the padding (%-m, %-d, %-H)
Pad2NoPad(n) == Digits(n)

\* %m, %d, %H: two digits, zero-padded

Pad2(n) == IF n < 10 THEN <<"0", Digit(n)>> ELSE Digits(n)

Strftime(t) == <<Digits(t.year), Pad2(t.month), Pad2(t.day), Pad2(t.hour)>>

\* get_ymdh(next_hour) evaluated at UTC instant u
GetYmdh(u, next_hour) ==
    LET local == NowEastern(u)
    IN Strftime(IF next_hour THEN AddHour(local) ELSE local)

(***************************************************************************)
(* Text operations (str.strip, str.split, str.splitlines, str.join).       *)
(* The alphabet of the model holds the whitespace characters space, \n,    *)
(* \r and \t; the other line boundaries of str.splitlines (\v, \f, ...)    *)
(* are outside it.                                                         *)
(***************************************************************************)
IsSpace(c) == c \in {" ", "\n", "\r", "\t"}

\* str.strip(): drop leading and trailing whitespace
Strip(s) ==
    IF \A i \in 1..Len(s) : IsSpace(s[i]) THEN <<>>
    ELSE SubSeq(s,
                CHOOSE i \in 1..Len(s) :
                    ~IsSpace(s[i]) /\ \A j \in 1..(i - 1) : IsSpace(s[j]),
                CHOOSE i \in 1..Len(s) :
                    ~IsSpace(s[i]) /\ \A j \in (i + 1)..Len(s) : IsSpace(s[j]))

\* the first index of s holding a character of set cs (0 when none)
FirstIn(s, cs) ==
    IF \A i \in 1..Len(s) : s[i] \notin cs THEN 0
    ELSE CHOOSE i \in 1..Len(s) : s[i] \in cs /\ \A j \in 1..(i - 1) : s[j] \notin cs

RECURSIVE SplitOn(_, _)
\* str.split(sep): k separators give k + 1 pieces
SplitOn(s, sep) ==
    LET i == FirstIn(s, {sep})
    IN IF i = 0 THEN <<s>>
       ELSE <<SubSeq(s, 1, i - 1)>> \o SplitOn(SubSeq(s, i + 1, Len(s)), sep)

RECURSIVE SplitLines(_)
\* str.splitlines(): \n, \r and \r\n end a line; no piece after the last
\* line end
SplitLines(s) ==
    LET i == FirstIn(s, {"\n", "\r"})
        skip == IF s[i] = "\r" /\ i < Len(s) /\ s[i + 1] = "\n" THEN 2 ELSE 1
    IN IF s = <<>> THEN <<>>
       ELSE IF i = 0 THEN <<s>>
       ELSE <<SubSeq(s, 1, i - 1)>> \o SplitLines(SubSeq(s, i + skip, Len(s)))

RECURSIVE Join(_, _)
\* sep.join(lines)
Join(lines, sep) ==
    IF lines = <<>> THEN <<>>
    ELSE IF Len(lines) = 1 THEN lines[1]
    ELSE lines[1] \o <<sep>> \o Join(Tail(lines), sep)

\* seq[:n]
Take(seq, n) == SubSeq(seq, 1, IF Len(seq) < n THEN Len(seq) ELSE n)

(***************************************************************************)
(* bytes.decode("utf-8").  The bytes of the model are ASCII, each its own  *)
(* character, and the two bytes C3 A9 of the character U+00E9.             *)
(***************************************************************************)
IsLeadOrAscii(c) == c # "A9"

\* the characters of well-formed UTF-8 bytes: C3 A9 is one character
DecodeValid(b) ==
    SelectSeq([i \in 1..Len(b) |-> IF b[i] = "C3" THEN "E9" ELSE b[i]], IsLeadOrAscii)

\* [ok, str]: the decoded text, or ok = FALSE for UnicodeDecodeError (a
\* lead byte C3 with no A9 after it, or an A9 that follows no C3)
Decode(b) ==
    LET bad == {i \in 1..Len(b) :
                    \/ b[i] = "C3" /\ (i = Len(b) \/ b[i + 1] # "A9")
                    \/ b[i] = "A9" /\ (i = 1 \/ b[i - 1] # "C3")}
    IN IF bad # {} THEN [ok |-> FALSE, str |-> <<>>]
       ELSE [ok |-> TRUE, str |-> DecodeValid(b)]

(***************************************************************************)
(* json.loads, on the alphabet of the model: strings with the escapes      *)
(* \n \r \t \" \\, objects and arrays.  The alphabet holds no digit, no    *)
(* minus sign and not the letters of true, false, null, NaN or Infinity,   *)
(* so every other value start is a JSONDecodeError.                        *)
(***************************************************************************)
JsonFail == [ok |-> FALSE, val |-> [type |-> "none", str |-> <<>>, members |-> <<>>], pos |-> 0]

JsonOk(v, p) == [ok |-> TRUE, val |-> v, pos |-> p]

JsonString(s) == [type |-> "string", str |-> s, members |-> <<>>]

JsonObject(ms) == [type |-> "object", str |-> <<>>, members |-> ms]

JsonArray(es) == [type |-> "array", str |-> <<>>, members |-> es]

\* the first index >= i of s that holds no JSON whitespace (Len(s) + 1 when none)
SkipWs(s, i) ==
    IF \A j \in i..Len(s) : IsSpace(s[j]) THEN Len(s) + 1
    ELSE CHOOSE j \in i..Len(s) : ~IsSpace(s[j]) /\ \A k \in i..(j - 1) : IsSpace(s[k])

Unescape(c) ==
    IF c = "n" THEN "\n" ELSE IF c = "r" THEN "\r" ELSE IF c = "t" THEN "\t" ELSE c

RECURSIVE ScanString(_, _, _)
\* the string whose opening quote is before index j; acc is what was read
ScanString(s, j, acc) ==
    IF j > Len(s) THEN JsonFail
    ELSE IF s[j] = "\"" THEN JsonOk(JsonString(acc), j + 1)
    ELSE IF s[j] = "\\"
         THEN IF j < Len(s) /\ s[j + 1] \in {"n", "r", "t", "\"", "\\"}
              THEN ScanString(s, j + 2, Append(acc, Unescape(s[j + 1])))
              ELSE JsonFail
    ELSE IF s[j] \in {"\n", "\r", "\t"} THEN JsonFail
    ELSE ScanString(s, j + 1, Append(acc, s[j]))

RECURSIVE ParseValue(_, _), ParseMembers(_, _, _), ParseElements(_, _, _)
\* the value that starts at index i of s
ParseValue(s, i) ==
    IF i > Len(s) THEN JsonFail
    ELSE IF s[i] = "\"" THEN ScanString(s, i + 1, <<>>)
    ELSE IF s[i] = "{"
         THEN LET j == SkipWs(s, i + 1)
              IN IF j <= Len(s) /\ s[j] = "}" THEN JsonOk(JsonObject(<<>>), j + 1)
                 ELSE ParseMembers(s, j, <<>>)
    ELSE IF s[i] = "["
         THEN LET j == SkipWs(s, i + 1)
              IN IF j <= Len(s) /\ s[j] = "]" THEN JsonOk(JsonArray(<<>>), j + 1)
                 ELSE ParseElements(s, j, <<>>)
    ELSE JsonFail

\* the members of an object from index i on (a key must start there)
ParseMembers(s, i, acc) ==
    IF i > Len(s) \/ s[i] # "\"" THEN JsonFail
    ELSE LET k == ScanString(s, i + 1, <<>>)
             c == SkipWs(s, k.pos)
             v == ParseValue(s, SkipWs(s, c + 1))
             e == SkipWs(s, v.pos)
             ms == Append(acc, <<k.val.str, v.val>>)
         IN IF ~k.ok THEN JsonFail
            ELSE IF c > Len(s) \/ s[c] # ":" THEN JsonFail
            ELSE IF ~v.ok THEN JsonFail
            ELSE IF e > Len(s) THEN JsonFail
            ELSE IF s[e] = "}" THEN JsonOk(JsonObject(ms), e + 1)
            ELSE IF s[e] = "," THEN ParseMembers(s, SkipWs(s, e + 1), ms)
            ELSE JsonFail

\* the elements of an array from index i on
ParseElements(s, i, acc) ==
    LET v == ParseValue(s, i)
        e == SkipWs(s, v.pos)
        es == Append(acc, v.val)
    IN IF ~v.ok THEN JsonFail
       ELSE IF e > Len(s) THEN JsonFail
       ELSE IF s[e] = "]" THEN JsonOk(JsonArray(es), e + 1)
       ELSE IF s[e] = "," THEN ParseElements(s, SkipWs(s, e + 1), es)
       ELSE JsonFail

\* json.loads(s): [ok, val]; ok = FALSE is JSONDecodeError
JsonLoads(s) ==
    LET v == ParseValue(s, SkipWs(s, 1))
    IN IF v.ok /\ SkipWs(s, v.pos) > Len(s) THEN v ELSE JsonFail

\* whether a dict holds key k, and dict[k] (the last member named k)
HasKey(obj, k) == \E i \in 1..Len(obj.members) : obj.members[i][1] = k

Lookup(obj, k) ==
    LET hits == {i \in 1..Len(obj.members) : obj.members[i][1] = k}
    IN obj.members[CHOOSE i \in hits : \A j \in hits : i >= j][2]

(***************************************************************************)
(* The completion endpoint: what requests.get(..., stream=True) returns.   *)
(* A response is a status and a body of newline-delimited fragments, which *)
(* iter_content delivers in chunks of at most ChunkSize bytes; where the   *)
(* chunks end is the transport's choice.  In the model the body arrives in *)
(* one chunk (cut = 0) or in two, the first holding cut bytes.             *)
(***************************************************************************)
Prefix == <<"d", "a", "t", "a", ":", " ">>

TextKey == <<"t", "e", "x", "t">>

\* the texts a fragment carries
Texts ==
    { <<"a">>,
      <<" ", "a", "\n", "d", "\r", "\n", "\n">>,
      <<"E9", "\n", "x", " ", "\n">> }

TextFragment(t) == [kind |-> "text", text |-> t]

Fragments ==
    {TextFragment(t) : t \in Texts}
        \cup {[kind |-> k, text |-> <<>>] : k \in {"nokey", "notobject", "badjson", "blank"}}

RECURSIVE JsonEscape(_)
\* a text as the endpoint puts it inside a JSON string, UTF-8 encoded
JsonEscape(t) ==
    IF t = <<>> THEN <<>>
    ELSE (IF t[1] = "\n" THEN <<"\\", "n">>
          ELSE IF t[1] = "\r" THEN <<"\\", "r">>
          ELSE IF t[1] = "E9" THEN <<"C3", "A9">>
          ELSE <<t[1]>>) \o JsonEscape(Tail(t))

\* the bytes of one fragment, without its newline
Wire(f) ==
    IF f.kind = "text"
    THEN Prefix \o <<"{", "\"">> \o TextKey \o <<"\"", ":", " ", "\"">>
             \o JsonEscape(f.text) \o <<"\"", "}">>
    ELSE IF f.kind = "nokey" THEN Prefix \o <<"{", "}">>
    ELSE IF f.kind = "notobject" THEN Prefix \o <<"[", "]">>
    ELSE IF f.kind = "badjson" THEN Prefix \o <<"[", "x", "]">>
    ELSE <<>>

RECURSIVE Body(_)
Body(frags) ==
    IF frags = <<>> THEN <<>> ELSE Wire(frags[1]) \o <<"\n">> \o Body(Tail(frags))

\* response.iter_content(chunk_size=1024): the chunks, in order
IterContent(r) ==
    LET body == Body(r.frags)
    IN IF body = <<>> THEN <<>>
       ELSE IF r.cut = 0 \/ r.cut >= Len(body) THEN <<body>>
       ELSE <<SubSeq(body, 1, r.cut), SubSeq(body, r.cut + 1, Len(body))>>

FragmentSeqs == UNION {[1..n -> Fragments] : n \in 0..MaxFragments}

ErrorResponse == [status |-> 500, frags |-> <<>>, cut |-> 0]

\* every response of the model
Responses ==
    {ErrorResponse} \cup
    { r \in UNION { { [status |-> StatusOk, frags |-> fs, cut |-> c] :
                        c \in 0..(IF fs = <<>> THEN 0 ELSE Len(Body(fs)) - 1) } :
                    fs \in FragmentSeqs } :
        \A i \in 1..Len(IterContent(r)) : Len(IterContent(r)[i]) <= ChunkSize }

\* a few of them
SampleResponses ==
    { ErrorResponse,
      [status |-> StatusOk, frags |-> <<TextFragment(<<"a">>)>>, cut |-> 0],
      [status |-> StatusOk,
       frags |-> <<TextFragment(<<"E9", "\n", "x", " ", "\n">>)>>, cut |-> 0] }

(***************************************************************************)
(* write_poem: the streaming aggregator.                                   *)
(***************************************************************************)
Raised(acc, e) == [acc EXCEPT !.exc = e]

RECURSIVE AddLines(_, _)
\* the loop over the lines of one chunk; acc = [exc, poem], and an
\* exception that is not a JSONDecodeError ends the loop
AddLines(lines, acc) ==
    IF lines = <<>> \/ acc.exc # "none" THEN acc
    ELSE LET line == Head(lines)
             data == JsonLoads(SubSeq(line, PrefixLen + 1, Len(line)))
         IN IF line = <<>> THEN AddLines(Tail(lines), acc)
            ELSE IF ~data.ok THEN AddLines(Tail(lines), acc)
            ELSE IF data.val.type # "object" THEN Raised(acc, "TypeError")
            ELSE IF ~HasKey(data.val, TextKey) THEN Raised(acc, "KeyError")
            ELSE IF Lookup(data.val, TextKey).type # "string"
                 THEN Raised(acc, "TypeError")
            ELSE AddLines(Tail(lines),
                          [acc EXCEPT !.poem = @ \o Lookup(data.val, TextKey).str])

RECURSIVE AddChunks(_, _)
\* the loop over the chunks
AddChunks(chunks, acc) ==
    IF chunks = <<>> \/ acc.exc # "none" THEN acc
    ELSE LET chunk == Decode(Head(chunks))
         IN IF ~chunk.ok THEN Raised(acc, "UnicodeDecodeError")
            ELSE AddChunks(Tail(chunks),
                           AddLines(SplitOn(Strip(chunk.str), "\n"), acc))

\* Assemble with response.raise_for_status() ahead of the loop
AssembleRaiseForStatus(r) ==
    IF r.status = StatusOk
    THEN AddChunks(IterContent(r), [exc |-> "none", poem |-> <<>>])
    ELSE [exc |-> "HTTPError", poem |-> <<>>]

\* poem as it stands before the truncation: [exc, poem]
Assemble(r) ==
    IF r.status = StatusOk
    THEN AddChunks(IterContent(r), [exc |-> "none", poem |-> <<>>])
    ELSE [exc |-> "none", poem |-> <<>>]

\* TruncatePoem with the slice one line longer
TruncatePoemFour(poem) == Join(Take(SplitLines(Strip(poem)), MaxLines + 1), "\n")

\* "\n".join(poem.strip().splitlines()[:3])
TruncatePoem(poem) == Join(Take(SplitLines(Strip(poem)), MaxLines), "\n")

(***************************************************************************)
(* The volume: poem.txt files by path.                                     *)
(***************************************************************************)
\* poems_path / year / month / day / hour / "poem.txt"
PoemPath(b) ==
    <<"/root/poems", "/">> \o b[1] \o <<"/">> \o b[2] \o <<"/">> \o b[3]
        \o <<"/">> \o b[4] \o <<"/", "poem.txt">>

\* WriteFile on a volume that keeps the last file only
WriteFileAlone(vol, path, content) == [p \in {path} |-> content]

\* open(path, "w"), write, commit: the file is created or replaced
WriteFile(vol, path, content) ==
    [p \in DOMAIN vol \cup {path} |-> IF p = path THEN content ELSE vol[p]]

RECURSIVE ReadText(_)
\* path.read_text(): text mode reads \r\n and \r as \n
ReadText(content) ==
    IF content = <<>> THEN <<>>
    ELSE IF content[1] = "\r"
         THEN <<"\n">> \o ReadText(SubSeq(content,
                    IF Len(content) >= 2 /\ content[2] = "\n" THEN 3 ELSE 2,
                    Len(content)))
    ELSE <<content[1]>> \o ReadText(Tail(content))

\* the text poem() returns for a path that holds no file
NotFoundPoem(path) ==
    <<"A message in red, so sudden and abrupt,", "\n",
      "File not found, a poem corrupt?", "\n",
      "FIleNotFoundError: [Errno 2] No such file or directory: ">> \o path

(***************************************************************************)
(* The state.                                                              *)
(***************************************************************************)
NoTime == DateTime(0, 0, 0, 0, 0)

NoYmdh == [called |-> FALSE, next_hour |-> FALSE, at |-> NoTime, value |-> <<>>]

NoWrite ==
    [outcome |-> "none", exc |-> "none", status |-> 0, assembled |-> <<>>,
     poem |-> <<>>, path |-> <<>>, at |-> NoTime, existed |-> FALSE]

NoRead == [outcome |-> "none", path |-> <<>>, poem |-> <<>>, found |-> FALSE]

NoVolume == [p \in {} |-> <<>>]

\* the UTC instants of the calendar years of the model, at the given minutes
Instants(minutes) ==
    {u \in [year : FirstYear..LastYear, month : 1..12, day : 1..31,
            hour : 0..23, minute : minutes] :
        u.day <= DaysInMonth(u.year, u.month)}

\* the clock moves on to minute 45, or to the next hour
AdvanceClock(u) ==
    IF u.minute < 45 THEN [u EXCEPT !.minute = 45]
    ELSE AddHour([u EXCEPT !.minute = 0])

\* the poem service is observed in the small hours of New York on the two
\* days of a year the clocks change
InWindow(u) ==
    /\ u.year \in FirstYear..LastYear
    /\ u.hour \in WindowStart..(WindowStart + WindowHours - 1)
    /\ \/ u.month = 3 /\ u.day = DstStartDay(u.year)
       \/ u.month = 11 /\ u.day = DstEndDay(u.year)

(***************************************************************************)
(* The operations of the poem service.                                     *)
(***************************************************************************)
\* get_ymdh(next_hour) is evaluated
GetYmdhCall(next_hour) ==
    /\ ymdh' = [called |-> TRUE, next_hour |-> next_hour, at |-> now,
                value |-> GetYmdh(now, next_hour)]
    /\ UNCHANGED <<now, response, volume, wp, rd, host, probe>>

\* write_poem() runs and the completion endpoint answers with r
WritePoem(r) ==
    LET path == PoemPath(GetYmdh(now, TRUE))
        a == Assemble(r)
        poem == TruncatePoem(a.poem)
    IN /\ path \in DOMAIN volume \/ Cardinality(DOMAIN volume) < MaxFiles
       /\ response' = r
       /\ IF a.exc # "none"
          THEN /\ wp' = [outcome |-> "raised", exc |-> a.exc, status |-> r.status,
                         assembled |-> a.poem, poem |-> <<>>, path |-> path,
                         at |-> now, existed |-> path \in DOMAIN volume]
               /\ UNCHANGED volume
          ELSE /\ wp' = [outcome |-> "returned", exc |-> "none", status |-> r.status,
                         assembled |-> a.poem, poem |-> poem, path |-> path,
                         at |-> now, existed |-> path \in DOMAIN volume]
               /\ volume' = WriteFile(volume, path, poem)
       /\ UNCHANGED <<now, ymdh, rd, host, probe>>

\* poem() without the except clauses: the FileNotFoundError propagates
PoemNoExcept ==
    LET path == PoemPath(GetYmdh(now, FALSE))
    IN /\ rd' = IF path \in DOMAIN volume
                THEN [outcome |-> "returned", path |-> path,
                      poem |-> ReadText(volume[path]), found |-> TRUE]
                ELSE [outcome |-> "raised", path |-> path,
                      poem |-> <<>>, found |-> FALSE]
       /\ UNCHANGED <<now, ymdh, response, volume, wp, host, probe>>

\* poem() runs
Poem ==
    LET path == PoemPath(GetYmdh(now, FALSE))
    IN /\ rd' = IF path \in DOMAIN volume
                THEN [outcome |-> "returned", path |-> path,
                      poem |-> ReadText(volume[path]), found |-> TRUE]
                ELSE [outcome |-> "returned", path |-> path,
                      poem |-> NotFoundPoem(path), found |-> FALSE]
       /\ UNCHANGED <<now, ymdh, response, volume, wp, host, probe>>

\* time passes
Tick ==
    /\ InWindow(AdvanceClock(now))
    /\ now' = AdvanceClock(now)
    /\ UNCHANGED <<ymdh, response, volume, wp, rd, host, probe>>

(***************************************************************************)
(* The diagnostic probe (use_cuda.py).  A version text is a sequence of    *)
(* tokens, "." being a token of its own.                                   *)
(***************************************************************************)
ReturnCodes == {0, 1, 9}

DriverTexts == { <<"535", ".", "129", ".", "03">>, <<"525", ".", "60", ".", "13">> }

CudaTexts == { <<"12", ".", "2">>, <<"12", ".", "4">>, <<"Not Found">>, <<"N/A">> }

Element(t) == [present |-> TRUE, text |-> t]

NoElement == [present |-> FALSE, text |-> <<>>]

NoXml == [wellformed |-> FALSE, driver_version |-> NoElement, cuda_version |-> NoElement]

\* what nvidia-smi -q -u -x may print
XmlDocs ==
    {NoXml} \cup
    [wellformed : {TRUE},
     driver_version : {NoElement} \cup {Element(t) : t \in DriverTexts},
     cuda_version : {NoElement} \cup {Element(t) : t \in CudaTexts}]

\* the files of /usr/lib/x86_64-linux-gnu, each a stem and a suffix
LibFiles ==
    { <<"libnvidia-ml", ".so.1">>, <<"libnvidia-ml", ".so.535.129.03">>,
      <<"libcuda", ".so.1">> }

\* shared_x86_dir.glob("libnvidia-ml*")
Glob(files) == {f \in files : f[1] = "libnvidia-ml"}

\* str.lower(), token by token
LowerToken(tok) ==
    IF tok = "Not Found" THEN "not found" ELSE IF tok = "N/A" THEN "n/a" ELSE tok

Lower(t) == [i \in 1..Len(t) |-> LowerToken(t[i])]

\* CheckSmi without the assertion on cuda_version
CheckSmiNoCuda(xml) ==
    IF ~xml.wellformed THEN "ParseError"
    ELSE IF ~xml.driver_version.present THEN "AttributeError"
    ELSE IF SplitOn(xml.driver_version.text, ".")[1] # <<"535">> THEN "AssertionError"
    ELSE "none"

\* ET.fromstring and the two assertions of nvidia_smi: the exception raised
CheckSmi(xml) ==
    IF ~xml.wellformed THEN "ParseError"
    ELSE IF ~xml.driver_version.present THEN "AttributeError"
    ELSE IF SplitOn(xml.driver_version.text, ".")[1] # <<"535">> THEN "AssertionError"
    ELSE IF ~xml.cuda_version.present THEN "AttributeError"
    ELSE IF SplitOn(xml.cuda_version.text, ".") # << <<"12">>, <<"2">> >>
         THEN "AssertionError"
    ELSE "none"

\* ET.fromstring and the two assertions of remove_libcuda
CheckRemoved(xml) ==
    IF ~xml.wellformed THEN "ParseError"
    ELSE IF ~xml.driver_version.present THEN "AttributeError"
    ELSE IF SplitOn(xml.driver_version.text, ".")[1] # <<"535">> THEN "AssertionError"
    ELSE IF ~xml.cuda_version.present THEN "AttributeError"
    ELSE IF Lower(xml.cuda_version.text) # <<"not found">> THEN "AssertionError"
    ELSE "none"

Run(cmd, rc) == [cmd |-> cmd, rc |-> rc]

NoProbe ==
    [func |-> "none", outcome |-> "none", exc |-> "none", runs |-> <<>>, xml |-> NoXml]

Outcome(exc) == IF exc = "none" THEN "returned" ELSE "raised"

\* nvidia_smi() runs; nvidia-smi exits with prc, the query with qrc and
\* prints xml
NvidiaSmi(prc, qrc, xml) ==
    /\ probe' =
          IF prc # 0
          THEN [func |-> "nvidia_smi", outcome |-> "raised", exc |-> "AssertionError",
                runs |-> <<Run("nvidia-smi", prc)>>, xml |-> NoXml]
          ELSE [func |-> "nvidia_smi", outcome |-> Outcome(CheckSmi(xml)),
                exc |-> CheckSmi(xml),
                runs |-> <<Run("nvidia-smi", prc), Run("nvidia-smi -q -u -x", qrc)>>,
                xml |-> xml]
    /\ UNCHANGED <<now, ymdh, response, volume, wp, rd, host>>

\* remove_libcuda(verbose) runs; the query exits with qrc and prints xml,
\* the closing nvidia-smi exits with prc
RemoveLibcuda(verbose, qrc, xml, prc) ==
    /\ host' = [host EXCEPT !.libs = @ \ Glob(@)]
    /\ probe' =
          [func |-> "remove_libcuda", outcome |-> Outcome(CheckRemoved(xml)),
           exc |-> CheckRemoved(xml),
           runs |-> IF verbose /\ CheckRemoved(xml) = "none"
                    THEN <<Run("nvidia-smi -q -u -x", qrc), Run("nvidia-smi", prc)>>
                    ELSE <<Run("nvidia-smi -q -u -x", qrc)>>,
           xml |-> xml]
    /\ UNCHANGED <<now, ymdh, response, volume, wp, rd>>

(***************************************************************************)
(* Specifications.                                                         *)
(***************************************************************************)
HostWithLibs == [libs |-> LibFiles]

\* the poem service: the clock, the volume, write_poem and poem
Init ==
    /\ now \in {u \in Instants({0, 45}) : InWindow(u)}
    /\ ymdh = NoYmdh
    /\ response = ErrorResponse
    /\ volume = NoVolume
    /\ wp = NoWrite
    /\ rd = NoRead
    /\ host = HostWithLibs
    /\ probe = NoProbe

Next ==
    \/ Tick
    \/ \E r \in SampleResponses : WritePoem(r)
    \/ Poem

Spec == Init /\ [][Next]_vars

\* get_ymdh at every instant of the calendar years of the model
InitTime ==
    /\ now \in Instants({0, 45, 59})
    /\ ymdh = NoYmdh
    /\ response = ErrorResponse
    /\ volume = NoVolume
    /\ wp = NoWrite
    /\ rd = NoRead
    /\ host = HostWithLibs
    /\ probe = NoProbe

NextTime == \E next_hour \in BOOLEAN : GetYmdhCall(next_hour)

SpecTime == InitTime /\ [][NextTime]_vars

\* write_poem on every response of the model
InitStream ==
    /\ now = DateTime(FirstYear, 1, 1, WindowStart, 45)
    /\ ymdh = NoYmdh
    /\ response \in Responses
    /\ volume = NoVolume
    /\ wp = NoWrite
    /\ rd = NoRead
    /\ host = HostWithLibs
    /\ probe = NoProbe

NextStream == WritePoem(response)

SpecStream == InitStream /\ [][NextStream]_vars

\* the diagnostic probe
InitProbe ==
    /\ now = DateTime(FirstYear, 1, 1, WindowStart, 45)
    /\ ymdh = NoYmdh
    /\ response = ErrorResponse
    /\ volume = NoVolume
    /\ wp = NoWrite
    /\ rd = NoRead
    /\ host \in [libs : SUBSET LibFiles]
    /\ probe = NoProbe

NextProbe ==
    \/ \E prc \in ReturnCodes, qrc \in ReturnCodes, xml \in XmlDocs :
            NvidiaSmi(prc, qrc, xml)
    \/ \E verbose \in BOOLEAN, qrc \in ReturnCodes, xml \in XmlDocs,
          prc \in ReturnCodes :
            RemoveLibcuda(verbose, qrc, xml, prc)

SpecProbe == InitProbe /\ [][NextProbe]_vars

(***************************************************************************)
(* Properties.                                                             *)
(***************************************************************************)
RECURSIVE ExpectedText(_)
\* the text values of the well-formed fragments, in arrival order
ExpectedText(frags) ==
    IF frags = <<>> THEN <<>>
    ELSE (IF frags[1].kind = "text" THEN frags[1].text ELSE <<>>)
             \o ExpectedText(Tail(frags))

\* the chunk boundary falls between two fragments (or there is one chunk)
WholeFragments(r) ==
    \/ r.cut = 0
    \/ \E k \in 1..Len(r.frags) : r.cut = Len(Body(SubSeq(r.frags, 1, k)))

\* C1: for a 200 response whose fragments all carry a "text" field, the
\* text write_poem assembles before truncation is the concatenation of the
\* fragments' texts in arrival order, wherever the chunk boundary falls.
C1_AssembledIsConcatenation ==
    (/\ wp.outcome # "none"
     /\ response.status = StatusOk
     /\ \A i \in 1..Len(response.frags) : response.frags[i].kind = "text")
        => (wp.outcome = "returned" /\ wp.assembled = ExpectedText(response.frags))

\* C2: a fragment that yields no usable text (invalid JSON, JSON that is no
\* object, an object with no "text" key) is skipped: with every fragment
\* arriving whole, write_poem appends all the well-formed fragments and
\* reaches the file write and the commit.
C2_MalformedSkipped ==
    (/\ wp.outcome # "none"
     /\ response.status = StatusOk
     /\ WholeFragments(response))
        => (/\ wp.outcome = "returned"
            /\ wp.assembled = ExpectedText(response.frags)
            /\ wp.path \in DOMAIN volume
            /\ volume[wp.path] = wp.poem)

\* C3: get_ymdh(next_hour=True) returns the calendar bucket, in New York,
\* of the instant exactly one hour later.
C3_NextHourIsOneHourLater ==
    (ymdh.called /\ ymdh.next_hour)
        => ymdh.value = Strftime(NowEastern(AddHour(ymdh.at)))

IsDigit(c) == \E n \in 0..9 : c = Digit(n)

RECURSIVE ToNat(_)
\* the number a string of digits spells
ToNat(s) ==
    IF s = <<>> THEN 0
    ELSE 10 * ToNat(SubSeq(s, 1, Len(s) - 1))
            + (CHOOSE n \in 0..9 : s[Len(s)] = Digit(n))

\* C4: the four strings of get_ymdh are digits of fixed widths: the year 4,
\* the month 2 in 01..12, the day 2 in 01..31, the hour 2 in 00..23, for
\* next_hour False and True.
C4_ZeroPadded ==
    ymdh.called =>
        /\ Len(ymdh.value) = 4
        /\ \A k \in 1..4 : \A i \in 1..Len(ymdh.value[k]) : IsDigit(ymdh.value[k][i])
        /\ Len(ymdh.value[1]) = 4
        /\ Len(ymdh.value[2]) = 2 /\ ToNat(ymdh.value[2]) \in 1..12
        /\ Len(ymdh.value[3]) = 2 /\ ToNat(ymdh.value[3]) \in 1..31
        /\ Len(ymdh.value[4]) = 2 /\ ToNat(ymdh.value[4]) \in 0..23

\* C4 witness: both forms were evaluated where padding matters: a one-digit
\* month, day and hour
C4_Witness ==
    /\ ymdh.called /\ ymdh.next_hour
    /\ ymdh.value[2] = <<"0", "3">>
    /\ ymdh.value[3] = <<"0", "1">>
    /\ ymdh.value[4] = <<"0", "0">>

\* C5: the poem write_poem writes and returns has at most three lines, the
\* first three lines of the stripped assembled text, in order.
C5_FirstThreeLines ==
    wp.outcome = "returned" =>
        /\ \A i \in 1..Len(wp.poem) : wp.poem[i] # "\r"
        /\ Cardinality({i \in 1..Len(wp.poem) : wp.poem[i] = "\n"}) <= 2
        /\ IF wp.poem = <<>>
           THEN Len(SplitLines(Strip(wp.assembled))) = 0
           ELSE SplitOn(wp.poem, "\n") = Take(SplitLines(Strip(wp.assembled)), 3)
        /\ wp.path \in DOMAIN volume
        /\ volume[wp.path] = wp.poem

\* C5 witness: a poem was written from an assembled text of more than three
\* lines with whitespace around it
C5_Witness ==
    /\ wp.outcome = "returned"
    /\ Len(SplitLines(Strip(wp.assembled))) > 3
    /\ Strip(wp.assembled) # wp.assembled
    /\ Len(SplitOn(wp.poem, "\n")) = 3

\* C6: when no poem.txt exists for the current bucket, poem() returns the
\* placeholder text as its result, no error propagates, and the volume is
\* unchanged.
C6_MissingPoemPlaceholder ==
    [][(rd' # rd /\ PoemPath(GetYmdh(now, FALSE)) \notin DOMAIN volume)
          => (/\ rd'.outcome = "returned"
              /\ ~rd'.found
              /\ rd'.path = PoemPath(GetYmdh(now, FALSE))
              /\ rd'.poem = NotFoundPoem(rd'.path)
              /\ rd'.poem # <<>>
              /\ volume' = volume)]_vars

\* C6 witness: poem() ran for a bucket with no file while the volume holds
\* the poem of another bucket
C6_Witness ==
    /\ rd.outcome = "returned"
    /\ ~rd.found
    /\ rd.path \notin DOMAIN volume
    /\ DOMAIN volume # {}

\* C7 as stated: once poem.txt exists at a bucket path its content never
\* changes.
C7_WrittenOnce ==
    [][\A p \in DOMAIN volume : p \in DOMAIN volume' /\ volume'[p] = volume[p]]_vars

\* C7 amended: once poem.txt exists at a bucket path it is never deleted,
\* poem() never changes it, and its content changes only when a write_poem
\* run that targets the same bucket replaces it with that run's poem.
C7_ReplacedOnlyByWritePoem ==
    [][\A p \in DOMAIN volume :
          /\ p \in DOMAIN volume'
          /\ volume'[p] # volume[p]
                => (/\ wp' # wp
                    /\ rd' = rd
                    /\ wp'.outcome = "returned"
                    /\ wp'.path = p
                    /\ wp'.existed
                    /\ volume'[p] = wp'.poem)]_vars

\* C7 witness: write_poem ran for a bucket whose poem.txt existed, while
\* the volume holds another bucket's poem as well
C7_Witness ==
    /\ wp.outcome = "returned"
    /\ wp.existed
    /\ Cardinality(DOMAIN volume) >= 2

\* C9: the path write_poem computes when triggered at minute 45 of an hour
\* is the path poem() computes during the hour that follows.
C9_WriterReaderAgree ==
    [][(/\ rd' # rd
        /\ wp.outcome = "returned"
        /\ wp.at.minute = 45
        /\ [now EXCEPT !.minute = 45] = AddHour(wp.at))
          => rd'.path = wp.path]_vars

\* C10: when the completion request returns a status other than 200,
\* write_poem still writes poem.txt with empty content and commits, and a
\* later poem() for that bucket returns the empty string, not the
\* placeholder text.
C10_NonOkWritesEmptyPoem ==
    [][/\ (wp' # wp /\ wp'.status # StatusOk)
            => (/\ wp'.outcome = "returned"
                /\ wp'.poem = <<>>
                /\ wp'.path \in DOMAIN volume'
                /\ volume'[wp'.path] = <<>>)
       /\ (/\ rd' # rd
           /\ wp.outcome = "returned"
           /\ wp.status # StatusOk
           /\ PoemPath(GetYmdh(now, FALSE)) = wp.path)
            => (/\ rd'.outcome = "returned"
                /\ rd'.found
                /\ rd'.poem = <<>>
                /\ rd'.poem # NotFoundPoem(rd'.path))]_vars

\* C10 witness: poem() read the empty poem.txt of a write_poem run whose
\* request did not return 200
C10_Witness ==
    /\ wp.outcome = "returned"
    /\ wp.status # StatusOk
    /\ rd.outcome = "returned"
    /\ rd.found
    /\ rd.path = wp.path
    /\ rd.poem = <<>>

\* the driver and toolkit fields a probe function expects
FieldsMatch(func, xml) ==
    /\ xml.wellformed
    /\ xml.driver_version.present
    /\ xml.driver_version.text[1] = "535"
    /\ xml.cuda_version.present
    /\ IF func = "nvidia_smi"
       THEN xml.cuda_version.text = <<"12", ".", "2">>
       ELSE xml.cuda_version.text \in {<<"Not Found">>, <<"not found">>}

\* C8 as stated: every failure of the probe is fatal: a non-zero exit of
\* any nvidia-smi invocation, or a field that does not match, and the
\* function does not return.
C8_EveryFailureFatal ==
    probe.outcome = "returned" =>
        /\ \A i \in 1..Len(probe.runs) : probe.runs[i].rc = 0
        /\ FieldsMatch(probe.func, probe.xml)

\* C8 amended: a non-zero exit of the plain nvidia-smi that nvidia_smi runs
\* first, output that does not parse, and a driver or toolkit field that is
\* missing or does not match are fatal, and no command is run twice; the
\* exit status of the nvidia-smi -q -u -x query and of the nvidia-smi that
\* closes remove_libcuda is not checked.
C8_CheckedFailuresFatal ==
    /\ (probe.func = "nvidia_smi" /\ probe.runs[1].rc # 0)
            => (probe.outcome = "raised" /\ Len(probe.runs) = 1)
    /\ (probe.outcome = "returned") => FieldsMatch(probe.func, probe.xml)
    /\ (probe.func = "nvidia_smi" /\ probe.outcome = "returned")
            => probe.runs[1] = Run("nvidia-smi", 0)
    /\ \A i, j \in 1..Len(probe.runs) :
            probe.runs[i].cmd = probe.runs[j].cmd => i = j

\* C8 witness: nvidia_smi ran both commands, both exited with 0, and a
\* field that does not match aborted it
C8_Witness ==
    /\ probe.func = "nvidia_smi"
    /\ probe.outcome = "raised"
    /\ probe.exc = "AssertionError"
    /\ Len(probe.runs) = 2
    /\ probe.runs[2].rc = 0
    /\ probe.xml.driver_version.present
    /\ probe.xml.driver_version.text[1] = "535"

====
